---- MODULE Spec2Model ----
(***************************************************************************)
(* Model of the HubSpot webhook verifier (POST handler) and of the Cin7 -> *)
(* HubSpot Orders daily sync (GET handler of cin7-daily-sync/route.js).    *)
(*                                                                         *)
(* JavaScript values are records [t, s, n]: t is the type tag, s the       *)
(* characters of a string (a sequence of one-character strings), n the     *)
(* value of a number.  An absent object field or header is JSUndefined /   *)
(* JSNull, as in the language.                                             *)
(***************************************************************************)
EXTENDS Integers, Sequences, FiniteSets, TLC

VARIABLES
    env,            \* process.env: variable name -> JS value (JSUndefined when unset)
    wreq,           \* webhook: the request being answered
    wresp,          \* webhook: the response to it
    pIn,            \* inputs handed to the pure helpers (dedupe loop, field mapper)
    pOut,           \* their results
    run,            \* sync: per invocation of GET, its local variables and position
    hubspot,        \* sync: the orders held by the destination, in creation order
    started         \* sync: how many invocations of GET have begun

webVars == <<wreq, wresp>>
pureVars == <<pIn, pOut>>
syncVars == <<run, hubspot, started>>
vars == <<env, wreq, wresp, pIn, pOut, run, hubspot, started>>

(***************************************************************************)
(* JavaScript values                                                       *)
(***************************************************************************)
JSUndefined == [t |-> "undefined", s |-> <<>>, n |-> 0]
JSNull == [t |-> "null", s |-> <<>>, n |-> 0]
JSNaN == [t |-> "nan", s |-> <<>>, n |-> 0]
Str(chars) == [t |-> "str", s |-> chars, n |-> 0]
Num(k) == [t |-> "num", s |-> <<>>, n |-> k]

\* v === undefined || v === null
IsNullish(v) == v.t \in {"undefined", "null"}

\* a ?? b
Coalesce(a, b) == IF IsNullish(a) THEN b ELSE a

\* ToBoolean: undefined, null, "", 0 and NaN are falsy
Truthy(v) ==
    CASE v.t = "str" -> v.s # <<>>
      [] v.t = "num" -> v.n # 0
      [] OTHER -> FALSE

\* a || b
OrElse(a, b) == IF Truthy(a) THEN a ELSE b

Digits == <<"0", "1", "2", "3", "4", "5", "6", "7", "8", "9">>

IsDigit(c) == \E i \in 1..Len(Digits) : Digits[i] = c

DigitVal(c) == (CHOOSE i \in 1..Len(Digits) : Digits[i] = c) - 1

IsSpace(c) == c = " "

\* String.prototype.trim
RECURSIVE TrimLeft(_)
TrimLeft(s) ==
    IF s # <<>> /\ IsSpace(Head(s)) THEN TrimLeft(Tail(s)) ELSE s

RECURSIVE TrimRight(_)
TrimRight(s) ==
    IF s # <<>> /\ IsSpace(s[Len(s)]) THEN TrimRight(SubSeq(s, 1, Len(s) - 1)) ELSE s

Trim(s) == TrimRight(TrimLeft(s))

\* the decimal numeral of a natural number
RECURSIVE DecStr(_)
DecStr(k) ==
    IF k < 10 THEN <<Digits[k + 1]>> ELSE DecStr(k \div 10) \o <<Digits[(k % 10) + 1]>>

\* the value of a string of decimal digits
RECURSIVE DecVal(_)
DecVal(s) ==
    IF s = <<>> THEN 0 ELSE 10 * DecVal(SubSeq(s, 1, Len(s) - 1)) + DigitVal(s[Len(s)])

AllDigits(s) == s # <<>> /\ \A i \in 1..Len(s) : IsDigit(s[i])

\* Number(string): white space is trimmed, the empty string is 0, an optionally
\* signed decimal integer is its value, anything else is NaN.  (Fractions,
\* exponents, hex and Infinity are outside the alphabet of the modelled inputs.)
StringToNumber(s) ==
    LET u == Trim(s)
        signed == u # <<>> /\ Head(u) \in {"+", "-"}
        body == IF signed THEN Tail(u) ELSE u
    IN  IF u = <<>> THEN Num(0)
        ELSE IF ~AllDigits(body) THEN JSNaN
        ELSE IF signed /\ Head(u) = "-" THEN Num(0 - DecVal(body))
        ELSE Num(DecVal(body))

\* Number(v)
ToNumber(v) ==
    CASE v.t = "str" -> StringToNumber(v.s)
      [] v.t = "num" -> v
      [] v.t = "null" -> Num(0)
      [] OTHER -> JSNaN

\* String(v), for the values that reach it
ToStr(v) ==
    CASE v.t = "str" -> v.s
      [] v.t = "num" -> IF v.n < 0 THEN <<"-">> \o DecStr(0 - v.n) ELSE DecStr(v.n)
      [] v.t = "nan" -> <<"N", "a", "N">>
      [] v.t = "null" -> <<"n", "u", "l", "l">>
      [] OTHER -> <<"u", "n", "d", "e", "f", "i", "n", "e", "d">>

Abs(x) == IF x < 0 THEN 0 - x ELSE x

\* process.env[name]
EnvNames ==
    {"HUBSPOT_CLIENT_SECRET", "HUBSPOT_PRIVATE_APP_TOKEN", "CIN7_USERNAME", "CIN7_KEY",
     "CIN7_BASE_URL", "CIN7_SALES_ORDERS_PATH", "CIN7_MAX_PAGES"}

EnvUnset == [v \in EnvNames |-> JSUndefined]

(***************************************************************************)
(* Webhook signature verifier: POST                                        *)
(***************************************************************************)
\* 5 * 60 * 1000
FiveMinutesMs == 300000

\* Date.now(): instants the verifier's clock can show
Nows == {1000000000, 1000000007}

\* decodeURIComponent: %XX escapes are decoded; a "%" that does not start a valid
\* escape throws URIError.  The escapes of the modelled inputs are %20 and %41.
EscapeChar(h1, h2) ==
    CASE h1 = "2" /\ h2 = "0" -> " "
      [] h1 = "4" /\ h2 = "1" -> "A"
      [] OTHER -> "?"

ValidEscape(h1, h2) == (h1 = "2" /\ h2 = "0") \/ (h1 = "4" /\ h2 = "1")

RECURSIVE UriMalformed(_)
UriMalformed(s) ==
    IF s = <<>> THEN FALSE
    ELSE IF Head(s) # "%" THEN UriMalformed(Tail(s))
    ELSE IF Len(s) < 3 THEN TRUE
    ELSE IF ~ValidEscape(s[2], s[3]) THEN TRUE
    ELSE UriMalformed(SubSeq(s, 4, Len(s)))

RECURSIVE decodeURIComponent(_)
decodeURIComponent(s) ==
    IF s = <<>> THEN <<>>
    ELSE IF Head(s) # "%" THEN <<Head(s)>> \o decodeURIComponent(Tail(s))
    ELSE <<EscapeChar(s[2], s[3])>> \o decodeURIComponent(SubSeq(s, 4, Len(s)))

\* A stand-in for crypto.createHmac("sha256", secret).update(s).digest("base64"):
\* a keyed checksum of the signing string, written as a fixed-length string.
Alphabet ==
    <<"0", "1", "2", "3", "4", "5", "6", "7", "8", "9", " ", "/", "?", "%", "=", "+", "-",
      "{", "}", "a", "b", "k", "w", "x", "A", "P", "O", "S", "T">>

Code(c) == IF \E i \in 1..Len(Alphabet) : Alphabet[i] = c
           THEN CHOOSE i \in 1..Len(Alphabet) : Alphabet[i] = c
           ELSE 0

RECURSIVE WeightedSum(_, _)
WeightedSum(s, k) ==
    IF s = <<>> THEN 0 ELSE (k * Code(Head(s)) + WeightedSum(Tail(s), k + 1)) % 100

Hmac(secret, s) ==
    LET h == (WeightedSum(s, 1) + 7 * WeightedSum(secret, 3)) % 100
    IN  <<Digits[(h \div 10) + 1], Digits[(h % 10) + 1]>>

\* crypto.timingSafeEqual on two buffers of the same length
timingSafeEqual(a, b) == \A i \in 1..Len(a) : a[i] = b[i]

\* a plausible slip: no length check, the supplied bytes are compared as a prefix
SignatureRejectedPrefix(computed, signature) ==
    ~(\A i \in 1..Len(signature) : i <= Len(computed) /\ computed[i] = signature[i])

\* if (a.length !== b.length || !crypto.timingSafeEqual(a, b))
SignatureRejected(computed, signature) ==
    Len(computed) # Len(signature) \/ ~timingSafeEqual(computed, signature)

\* a plausible slip: only timestamps in the past are checked against the window
TimestampRejectedPastOnly(ts, now) ==
    ~Truthy(ts) \/ (ts.t = "num" /\ now - ts.n > FiveMinutesMs)

\* if (!ts || Math.abs(now - ts) > 5 * 60 * 1000)
TimestampRejected(ts, now) ==
    ~Truthy(ts) \/ (ts.t = "num" /\ Abs(now - ts.n) > FiveMinutesMs)

Response(status, body) == [status |-> status, body |-> body]

NoResponse == Response(0, "")

\* `${request.method}${requestUri}${rawBody}${timestamp}`
SourceString(req, timestamp) ==
    req.method \o decodeURIComponent(req.uri) \o req.body \o timestamp

\* export async function POST(request)
PostResponse(req, now, secretVar) ==
    LET signature == ToStr(Coalesce(req.signature, Str(<<>>)))
        timestamp == ToStr(Coalesce(req.timestamp, Str(<<>>)))
        ts == ToNumber(Str(timestamp))
    IN  IF TimestampRejected(ts, now) THEN Response(401, "Invalid timestamp")
        ELSE IF ~Truthy(secretVar) THEN Response(500, "Missing HUBSPOT_CLIENT_SECRET")
        ELSE IF UriMalformed(req.uri) THEN Response(-1, "URIError")
        ELSE IF SignatureRejected(Hmac(secretVar.s, SourceString(req, timestamp)), signature)
        THEN Response(401, "Invalid signature")
        ELSE Response(200, "{ok:true}")

\* --- the requests the model sends ---
PostMethod == <<"P", "O", "S", "T">>

Uris ==
    { <<"/", "w">>,
      <<"/", "w", "?", "a", "=", "%", "2", "0", "b">>,
      <<"/", "w", "?", "a", "=", "%">> }

Bodies == { <<>>, <<"{", "}">> }

Secrets == { JSUndefined, Str(<<>>), Str(<<"k">>), Str(<<"k", "k">>) }

Skews ==
    { 0 - (FiveMinutesMs + 1), 0 - FiveMinutesMs, 0 - 1, 0, FiveMinutesMs, FiveMinutesMs + 1 }

TimestampHeaders(now) ==
    { JSNull, Str(<<>>), Str(<<" ">>), Str(<<"a", "b">>), Str(<<"1", "2", "x">>),
      Str(<<"0">>), Str(<<"-", "5">>), Str(<<" ">> \o DecStr(now)) }
    \cup { Str(DecStr(now + d)) : d \in Skews }

\* what a sender holding `key` signs for this request
SignedBy(key, method, uri, body, tsHeader) ==
    Hmac(key, method \o (IF UriMalformed(uri) THEN uri ELSE decodeURIComponent(uri))
              \o body \o ToStr(Coalesce(tsHeader, Str(<<>>))))

SignatureHeaders(method, uri, body, tsHeader) ==
    LET good == SignedBy(<<"k">>, method, uri, body, tsHeader)
    IN  { JSNull, Str(good), Str(good \o <<"=">>), Str(SubSeq(good, 1, 1)),
          Str(SignedBy(<<"x">>, method, uri, body, tsHeader)) }

NoRequest ==
    [method |-> <<>>, uri |-> <<>>, body |-> <<>>, timestamp |-> JSNull,
     signature |-> JSNull, now |-> 0]

\* One request arrives and is answered; the handler keeps no state between requests.
POST ==
    /\ wreq = NoRequest
    /\ \E now \in Nows, u \in Uris, b \in Bodies :
      \E t \in TimestampHeaders(now) :
        \E sg \in SignatureHeaders(PostMethod, u, b, t) :
          LET req == [method |-> PostMethod, uri |-> u, body |-> b,
                      timestamp |-> t, signature |-> sg, now |-> now]
          IN  /\ wreq' = req
              /\ wresp' = PostResponse(req, now, env["HUBSPOT_CLIENT_SECRET"])
    /\ UNCHANGED <<env, pureVars, syncVars>>

\* export async function GET(): the health check
HealthGET ==
    /\ wreq = NoRequest
    /\ wreq' = [NoRequest EXCEPT !.method = <<"G", "E", "T">>]
    /\ wresp' = Response(200, "OK")
    /\ UNCHANGED <<env, pureVars, syncVars>>

(***************************************************************************)
(* Cin7 -> HubSpot sync: the pure helpers of route.js                      *)
(***************************************************************************)
\* the fields of a Cin7 sales order that the handler reads
OrderFields ==
    {"id", "Id", "OrderId", "SalesOrderId", "OrderNumber", "reference",
     "productTotal", "freightTotal", "total",
     "deliveryCompany", "deliveryFirstName", "deliveryLastName",
     "deliveryAddress1", "deliveryAddress2", "deliveryCity", "deliveryState",
     "deliveryPostalCode", "deliveryCountry", "billingCompany"}

\* an order none of whose fields is set: o?.f is undefined for each
BlankOrder == [f \in OrderFields |-> JSUndefined]

\* const UNIQUE_PROP = "cin7_order_id"
UNIQUE_PROP == "cin7_order_id"

\* function normalizeCin7Id(o)
normalizeCin7Id(o) ==
    Trim(ToStr(
        Coalesce(o.id,
        Coalesce(o.Id,
        Coalesce(o.OrderId,
        Coalesce(o.SalesOrderId,
        Coalesce(o.OrderNumber,
        Coalesce(o.reference, Str(<<>>)))))))))

\* `${o?.deliveryFirstName || ""} ${o?.deliveryLastName || ""}`.trim()
FullName(o) ==
    Str(Trim(ToStr(OrElse(o.deliveryFirstName, Str(<<>>))) \o <<" ">>
             \o ToStr(OrElse(o.deliveryLastName, Str(<<>>)))))

Cin7OrderPrefix == <<"C", "i", "n", "7", " ", "O", "r", "d", "e", "r", " ">>

\* const candidateProps = { ... }
candidateProps(o, cin7OrderId) ==
    [cin7_order_id |-> Str(cin7OrderId),
     hs_order_name |-> Str(Cin7OrderPrefix \o ToStr(OrElse(o.reference, Str(cin7OrderId)))),
     hs_currency_code |-> Str(<<"U", "S", "D">>),
     hs_subtotal_price |-> o.productTotal,
     hs_shipping_cost |-> o.freightTotal,
     hs_total_price |-> o.total,
     hs_shipping_address_name |-> OrElse(o.deliveryCompany, FullName(o)),
     hs_shipping_address_street |->
         OrElse(o.deliveryAddress1, OrElse(o.deliveryAddress2, Str(<<>>))),
     hs_shipping_address_city |-> o.deliveryCity,
     hs_shipping_address_state |-> o.deliveryState,
     hs_shipping_address_postal_code |-> o.deliveryPostalCode,
     hs_shipping_address_country |-> o.deliveryCountry,
     cin7_company |-> o.billingCompany]

CandidateKeys == DOMAIN candidateProps(BlankOrder, <<>>)

\* a plausible slip: the schema filter is applied, the empty-value filter is not
pickExistingPropsKeepEmpty(allNamesSet, candidate) ==
    [k \in {c \in DOMAIN candidate : c \in allNamesSet} |-> candidate[k]]

\* function pickExistingProps(allNamesSet, candidateProps)
pickExistingProps(allNamesSet, candidate) ==
    [k \in {c \in DOMAIN candidate :
              /\ ~(candidate[c] = JSUndefined \/ candidate[c] = JSNull
                     \/ candidate[c] = Str(<<>>))
              /\ c \in allNamesSet} |-> candidate[k]]

\* the properties payload of one prepared order (GET, the body of the upsert loop)
WritePayload(hsOrderProps, o) ==
    pickExistingProps(hsOrderProps, candidateProps(o, normalizeCin7Id(o)))

\* for (const o of allOrders) { ... }: the dedupe loop of GET
RECURSIVE PrepareLoop(_, _, _, _)
PrepareLoop(orders, seen, prepared, skipped) ==
    IF orders = <<>> THEN [prepared |-> prepared, skipped |-> skipped]
    ELSE LET o == Head(orders)
             cin7OrderId == normalizeCin7Id(o)
         IN  IF cin7OrderId = <<>> THEN PrepareLoop(Tail(orders), seen, prepared, skipped + 1)
             ELSE IF cin7OrderId \in seen THEN PrepareLoop(Tail(orders), seen, prepared, skipped)
             ELSE PrepareLoop(Tail(orders), seen \cup {cin7OrderId},
                              Append(prepared, o), skipped)

Prepare(allOrders) == PrepareLoop(allOrders, {}, <<>>, 0)

\* --- the inputs the helpers are applied to ---
MaxLen == 3

SampleOrders ==
    { [BlankOrder EXCEPT !.id = Num(7), !.reference = Str(<<"A">>), !.total = Num(5),
                         !.deliveryCompany = Str(<<"C", "o">>),
                         !.deliveryCity = Str(<<"X">>), !.billingCompany = JSNull],
      [BlankOrder EXCEPT !.id = Str(<<" ", "7", " ">>), !.deliveryFirstName = Str(<<"a">>),
                         !.deliveryLastName = Str(<<"b">>), !.productTotal = Num(0),
                         !.deliveryCity = Str(<<>>)],
      [BlankOrder EXCEPT !.Id = Num(8), !.deliveryAddress2 = Str(<<"x">>),
                         !.deliveryLastName = Str(<<"b">>)],
      [BlankOrder EXCEPT !.id = JSNull, !.OrderId = Str(<<"9">>), !.freightTotal = JSNull],
      [BlankOrder EXCEPT !.reference = Str(<<"R">>)],
      [BlankOrder EXCEPT !.id = Str(<<>>), !.reference = Str(<<"R">>)],
      BlankOrder,
      [BlankOrder EXCEPT !.id = Str(<<" ">>), !.total = Num(1)] }

OrderLists == UNION { [1..k -> SampleOrders] : k \in 0..MaxLen }

SampleSchemas ==
    { {},
      {UNIQUE_PROP},
      {UNIQUE_PROP, "hs_order_name", "hs_shipping_address_city", "hs_subtotal_price"},
      {"hs_order_name", "hs_total_price", "cin7_company", "hs_shipping_address_street"},
      CandidateKeys,
      CandidateKeys \cup {"hs_pipeline"} }

NoPure ==
    [op |-> "none", orders |-> <<>>, order |-> BlankOrder, schema |-> {}]

NoPureResult ==
    [prepared |-> <<>>, skipped |-> 0, candidate |-> candidateProps(BlankOrder, <<>>),
     properties |-> <<>>]

ApplyPrepare ==
    /\ pIn = NoPure
    /\ \E orders \in OrderLists :
         /\ pIn' = [NoPure EXCEPT !.op = "prepare", !.orders = orders]
         /\ pOut' = [NoPureResult EXCEPT !.prepared = Prepare(orders).prepared,
                                         !.skipped = Prepare(orders).skipped]
    /\ UNCHANGED <<env, webVars, syncVars>>

ApplyMapper ==
    /\ pIn = NoPure
    /\ \E o \in SampleOrders, schema \in SampleSchemas :
         /\ pIn' = [NoPure EXCEPT !.op = "map", !.order = o, !.schema = schema]
         /\ pOut' = [NoPureResult EXCEPT
                       !.candidate = candidateProps(o, normalizeCin7Id(o)),
                       !.properties = WritePayload(schema, o)]
    /\ UNCHANGED <<env, webVars, syncVars>>

InitWebhook ==
    /\ \E secret \in Secrets : env = [EnvUnset EXCEPT !["HUBSPOT_CLIENT_SECRET"] = secret]
    /\ wreq = NoRequest
    /\ wresp = NoResponse
    /\ pIn = NoPure
    /\ pOut = NoPureResult
    /\ run = [r \in {1, 2} |-> 0]
    /\ hubspot = <<>>
    /\ started = 0

NextWebhook == POST \/ HealthGET

SpecWebhook == InitWebhook /\ [][NextWebhook]_vars

InitHelpers ==
    /\ env = EnvUnset
    /\ wreq = NoRequest
    /\ wresp = NoResponse
    /\ pIn = NoPure
    /\ pOut = NoPureResult
    /\ run = [r \in {1, 2} |-> 0]
    /\ hubspot = <<>>
    /\ started = 0

NextHelpers == ApplyPrepare \/ ApplyMapper

SpecHelpers == InitHelpers /\ [][NextHelpers]_vars

(***************************************************************************)
(* Cin7 -> HubSpot sync: export async function GET()                       *)
(*                                                                         *)
(* One action per stretch of the handler between two awaits: the handler   *)
(* runs to its next HTTP request, and the action that follows receives the *)
(* response.  A request acts on the remote system at the moment its        *)
(* response is received.                                                   *)
(***************************************************************************)
Runs == {1, 2}

\* bounds of the model
MaxRuns == 2
MaxFetches == 2

\* Number(process.env.CIN7_MAX_PAGES || "50"): the default
DefaultMaxPages == <<"5", "0">>

\* a > b on JS numbers: false when either side is NaN
JSGreater(a, b) == a.t = "num" /\ b.t = "num" /\ a.n > b.n

SyncResponse(status, ok, error) ==
    [status |-> status, ok |-> ok, error |-> error, cin7Count |-> 0, prepared |-> 0,
     created |-> 0, updated |-> 0, skipped |-> 0, errorsCount |-> 0, sampleErrors |-> <<>>]

NoSyncResponse == SyncResponse(0, FALSE, "")

\* the local variables of one invocation, before its first statement.
\* existingId = 0 stands for null.  The last six fields record the HTTP traffic
\* of the invocation: the Cin7 page requests issued and the non-success responses
\* to them, whether the property schema request succeeded, the HubSpot
\* search/create/update requests issued and the non-success responses to them,
\* and the positions in `prepared` a search was issued for.
IdleRun ==
    [pc |-> "idle", maxPages |-> Num(0), hsOrderProps |-> {}, page |-> 0,
     allOrders |-> <<>>, prepared |-> <<>>, skipped |-> 0, i |-> 0, existingId |-> 0,
     created |-> 0, updated |-> 0, errors |-> <<>>, response |-> NoSyncResponse,
     fetches |-> 0, sourceErrors |-> 0, schema |-> "none", calls |-> 0, failures |-> 0,
     searched |-> <<>>]

\* requireEnv(name) does not throw
EnvSet(name) == Truthy(env[name])

\* } catch (err) { return Response.json({ ok: false, error }, { status: 500 }) }
Fatal(rec, message) ==
    [rec EXCEPT !.pc = "done", !.response = SyncResponse(500, FALSE, message)]

\* errors.slice(0, 3)
SampleErrors(errors) == SubSeq(errors, 1, IF Len(errors) < 3 THEN Len(errors) ELSE 3)

\* return Response.json({ ok: true, ... })
Finish(rec) ==
    [rec EXCEPT !.pc = "done",
                !.response = [status |-> 200, ok |-> TRUE, error |-> "",
                              cin7Count |-> Len(rec.allOrders),
                              prepared |-> Len(rec.prepared),
                              created |-> rec.created, updated |-> rec.updated,
                              skipped |-> rec.skipped, errorsCount |-> Len(rec.errors),
                              sampleErrors |-> SampleErrors(rec.errors)]]

\* for (const o of prepared) { try { ... findOrderByUniqueProperty(...):
\* the head of the upsert loop, up to the search request of record i
UpsertNext(rec) ==
    IF rec.i > Len(rec.prepared) THEN Finish(rec)
    ELSE [rec EXCEPT !.pc = "search", !.calls = @ + 1, !.searched = Append(@, rec.i)]

\* a plausible slip: no try/catch around one record, its failure ends the run
OnRecordErrorAbort(rec, message) ==
    Fatal([rec EXCEPT !.failures = @ + 1], message)

\* } catch (e) { errors.push(String(e?.message || e)); }
OnRecordError(rec, message) ==
    UpsertNext([rec EXCEPT !.errors = Append(@, message), !.failures = @ + 1, !.i = @ + 1])

\* the dedupe loop, then the first iteration of the upsert loop
AfterPagination(rec) ==
    LET p == Prepare(rec.allOrders)
    IN  UpsertNext([rec EXCEPT !.prepared = p.prepared, !.skipped = p.skipped, !.i = 1])

\* a plausible slip: a failed page request ends pagination and the pages already
\* fetched are written
OnCin7ErrorUsePartial(rec, status) == AfterPagination(rec)

\* cin7FetchJson: if (!resp.ok) throw new Error(`Cin7 error ${resp.status}: ${text}`)
OnCin7Error(rec, status) ==
    Fatal(rec, IF status = 401 THEN "Cin7 error 401" ELSE "Cin7 error 500")

\* cin7FetchJson(cin7Url), up to its fetch
FetchPage(rec) ==
    IF ~EnvSet("CIN7_USERNAME") THEN Fatal(rec, "Missing env var: CIN7_USERNAME")
    ELSE IF ~EnvSet("CIN7_KEY") THEN Fatal(rec, "Missing env var: CIN7_KEY")
    ELSE [rec EXCEPT !.pc = "page", !.fetches = @ + 1]

\* Array.isArray(cin7Data) ? cin7Data : (cin7Data?.items || cin7Data?.results || [])
\* (an array, empty or not, is truthy)
OrdersOf(cin7Data) ==
    IF cin7Data.isArray THEN cin7Data.array
    ELSE IF cin7Data.hasItems THEN cin7Data.items
    ELSE IF cin7Data.hasResults THEN cin7Data.results
    ELSE <<>>

\* a plausible slip: the unique property is not looked for
SchemaHasUniquePropUnchecked(names) == TRUE

\* hsOrderProps.has(UNIQUE_PROP)
SchemaHasUniqueProp(names) == UNIQUE_PROP \in names

\* a plausible slip: the search result is not read
findOrderByUniquePropertyNone(orders, uniqueValue) == 0

\* findOrderByUniqueProperty: the id of the first order whose unique property
\* equals the value (limit 1), or null (0)
findOrderByUniqueProperty(orders, uniqueValue) ==
    LET hits == {k \in 1..Len(orders) :
                   /\ UNIQUE_PROP \in DOMAIN orders[k].properties
                   /\ orders[k].properties[UNIQUE_PROP] = Str(uniqueValue)}
    IN  IF hits = {} THEN 0
        ELSE orders[CHOOSE k \in hits : \A j \in hits : k <= j].id

\* POST /crm/v3/objects/orders: the destination adds an order under a fresh id
createOrder(orders, properties) ==
    Append(orders, [id |-> Len(orders) + 1, properties |-> properties])

\* PATCH /crm/v3/objects/orders/{orderId}: the properties sent overwrite the stored ones
updateOrder(orders, orderId, properties) ==
    [k \in 1..Len(orders) |->
        IF orders[k].id # orderId THEN orders[k]
        ELSE [orders[k] EXCEPT !.properties =
                [n \in DOMAIN properties \cup DOMAIN orders[k].properties |->
                    IF n \in DOMAIN properties THEN properties[n]
                    ELSE orders[k].properties[n]]]]

\* a plausible variant: a lock, an invocation begins only when no other is active
MayStartExclusive(r) ==
    run[r].pc = "idle" /\ \A q \in Runs \ {r} : run[q].pc = "idle"

\* GET takes no lock: an invocation begins whatever the others are doing
MayStart(r) == run[r].pc = "idle"

\* GET, from its first statement to the property schema request
StartRun(r) ==
    /\ MayStart(r)
    /\ started < MaxRuns
    /\ started' = started + 1
    /\ run' = [run EXCEPT ![r] =
         IF ~EnvSet("CIN7_BASE_URL") THEN Fatal(IdleRun, "Missing env var: CIN7_BASE_URL")
         ELSE IF ~EnvSet("CIN7_SALES_ORDERS_PATH")
         THEN Fatal(IdleRun, "Missing env var: CIN7_SALES_ORDERS_PATH")
         ELSE LET rec == [IdleRun EXCEPT !.maxPages =
                            ToNumber(OrElse(env["CIN7_MAX_PAGES"], Str(DefaultMaxPages)))]
              IN  IF ~EnvSet("HUBSPOT_PRIVATE_APP_TOKEN")
                  THEN Fatal(rec, "Missing env var: HUBSPOT_PRIVATE_APP_TOKEN")
                  ELSE [rec EXCEPT !.pc = "schema"]]
    /\ UNCHANGED <<env, webVars, pureVars, hubspot>>

\* the same, when the deployment triggers one invocation at a time
StartRunAlone(r) ==
    /\ \A q \in Runs : run[q].pc = "idle"
    /\ StartRun(r)

\* the responses of GET /crm/v3/properties/orders
SchemaResponses ==
    { [ok |-> FALSE, names |-> {}],
      [ok |-> TRUE, names |-> {}],
      [ok |-> TRUE, names |-> {"hs_order_name", "hs_total_price"}],
      [ok |-> TRUE, names |-> {UNIQUE_PROP, "hs_order_name", "hs_total_price",
                               "hs_shipping_address_city"}] }

\* GET, from the property schema response to the first Cin7 page request
SchemaResponse(r) ==
    /\ run[r].pc = "schema"
    /\ \E resp \in SchemaResponses :
         run' = [run EXCEPT ![r] =
           IF ~resp.ok THEN Fatal([run[r] EXCEPT !.schema = "failed"], "HubSpot error 500")
           ELSE LET rec == [run[r] EXCEPT !.hsOrderProps = resp.names, !.schema = "ok"]
                IN  IF ~SchemaHasUniqueProp(rec.hsOrderProps)
                    THEN Fatal(rec, "Missing HubSpot Order property")
                    ELSE FetchPage([rec EXCEPT !.page = 1])]
    /\ UNCHANGED <<env, webVars, pureVars, hubspot, started>>

\* the orders the sync actions are run on
Order7 == [BlankOrder EXCEPT !.id = Num(7), !.reference = Str(<<"A">>), !.total = Num(5)]
Order7Again == [BlankOrder EXCEPT !.id = Str(<<" ", "7">>), !.deliveryCity = Str(<<"X">>)]
Order8 == [BlankOrder EXCEPT !.Id = Num(8)]
Order9 == [BlankOrder EXCEPT !.id = JSNull, !.OrderId = Str(<<"9">>)]
OrderR == [BlankOrder EXCEPT !.reference = Str(<<"R">>), !.total = Num(0)]

Cin7Array(orders) ==
    [isArray |-> TRUE, array |-> orders, hasItems |-> FALSE, items |-> <<>>,
     hasResults |-> FALSE, results |-> <<>>]

Cin7Object(hasItems, items, hasResults, results) ==
    [isArray |-> FALSE, array |-> <<>>, hasItems |-> hasItems, items |-> items,
     hasResults |-> hasResults, results |-> results]

Cin7Ok(data) == [status |-> 200, data |-> data]

Cin7Failure(status) == [status |-> status, data |-> Cin7Array(<<>>)]

\* the responses of the Cin7 listing, for a sequence of invocations
PageResponses ==
    { Cin7Failure(500),
      Cin7Ok(Cin7Array(<<>>)),
      Cin7Ok(Cin7Object(FALSE, <<>>, FALSE, <<>>)),
      Cin7Ok(Cin7Array(<<Order7, Order7Again, BlankOrder>>)),
      Cin7Ok(Cin7Object(TRUE, <<OrderR, Order7, Order8, Order9>>, FALSE, <<>>)) }

\* ... and for invocations that overlap
PageResponsesSmall ==
    { Cin7Failure(401),
      Cin7Ok(Cin7Object(TRUE, <<>>, TRUE, <<Order8>>)),
      Cin7Ok(Cin7Array(<<Order8>>)),
      Cin7Ok(Cin7Object(FALSE, <<>>, TRUE, <<Order7, Order7Again, BlankOrder>>)) }

\* GET, from a Cin7 page response to the next request: the rest of the while loop
\* and, when it ends, the dedupe loop and the head of the upsert loop
PageResponse(r, responses) ==
    /\ run[r].pc = "page"
    /\ \E resp \in responses :
         LET rec == IF resp.status = 200 THEN run[r]
                    ELSE [run[r] EXCEPT !.sourceErrors = @ + 1]
             orders == OrdersOf(resp.data)
             more == [rec EXCEPT !.allOrders = @ \o orders, !.page = @ + 1]
         IN  IF resp.status # 200 THEN run' = [run EXCEPT ![r] = OnCin7Error(rec, resp.status)]
             ELSE IF orders = <<>> THEN run' = [run EXCEPT ![r] = AfterPagination(rec)]
             ELSE IF JSGreater(Num(more.page), more.maxPages)
             THEN run' = [run EXCEPT ![r] = AfterPagination(more)]
             ELSE /\ rec.fetches < MaxFetches
                  /\ run' = [run EXCEPT ![r] = FetchPage(more)]
    /\ UNCHANGED <<env, webVars, pureVars, hubspot, started>>

\* GET, from the search response to the create or update request
SearchResponse(r) ==
    /\ run[r].pc = "search"
    /\ \E ok \in BOOLEAN :
         LET rec == run[r]
             cin7OrderId == normalizeCin7Id(rec.prepared[rec.i])
         IN  run' = [run EXCEPT ![r] =
               IF ~ok THEN OnRecordError(rec, "HubSpot error 429")
               ELSE [rec EXCEPT !.existingId = findOrderByUniqueProperty(hubspot, cin7OrderId),
                                !.pc = "write", !.calls = @ + 1]]
    /\ UNCHANGED <<env, webVars, pureVars, hubspot, started>>

\* GET, from the create or update response to the next request or the summary
WriteResponse(r) ==
    /\ run[r].pc = "write"
    /\ \E ok \in BOOLEAN :
         LET rec == run[r]
             properties == WritePayload(rec.hsOrderProps, rec.prepared[rec.i])
         IN  IF ~ok
             THEN /\ run' = [run EXCEPT ![r] =
                       OnRecordError(rec, IF rec.existingId # 0 THEN "HubSpot error 404"
                                          ELSE "HubSpot error 400")]
                  /\ UNCHANGED hubspot
             ELSE IF rec.existingId # 0
             THEN /\ hubspot' = updateOrder(hubspot, rec.existingId, properties)
                  /\ run' = [run EXCEPT ![r] =
                       UpsertNext([rec EXCEPT !.updated = @ + 1, !.i = @ + 1])]
             ELSE /\ hubspot' = createOrder(hubspot, properties)
                  /\ run' = [run EXCEPT ![r] =
                       UpsertNext([rec EXCEPT !.created = @ + 1, !.i = @ + 1])]
    /\ UNCHANGED <<env, webVars, pureVars, started>>

\* the response has been returned: the invocation and its local variables are gone
Respond(r) ==
    /\ run[r].pc = "done"
    /\ run' = [run EXCEPT ![r] = IdleRun]
    /\ UNCHANGED <<env, webVars, pureVars, hubspot, started>>

\* process.env of a deployment: everything set, or one required variable unset or
\* empty; CIN7_MAX_PAGES unset, empty, a count, or not a number
RequiredEnv ==
    {"HUBSPOT_PRIVATE_APP_TOKEN", "CIN7_USERNAME", "CIN7_KEY", "CIN7_BASE_URL",
     "CIN7_SALES_ORDERS_PATH"}

MaxPagesSettings ==
    { JSUndefined, Str(<<>>), Str(<<"0">>), Str(<<"1">>), Str(<<"2">>),
      Str(<<"a", "b">>) }

EnvAllSet ==
    [v \in EnvNames |-> IF v \in RequiredEnv THEN Str(<<"x">>) ELSE JSUndefined]

SyncEnvs ==
    { [EnvAllSet EXCEPT !["CIN7_MAX_PAGES"] = m] : m \in MaxPagesSettings }
    \cup { [EnvAllSet EXCEPT ![v] = JSUndefined] : v \in RequiredEnv }
    \cup { [EnvAllSet EXCEPT !["CIN7_KEY"] = Str(<<>>)] }

\* what the destination holds before the first invocation: nothing, or an order
\* synced earlier
ExistingOrders ==
    { <<>>,
      <<[id |-> 1,
         properties |-> [cin7_order_id |-> Str(<<"8">>),
                         hs_order_name |-> Str(<<"o", "l", "d">>)]]>> }

InitSync ==
    /\ env \in SyncEnvs
    /\ wreq = NoRequest
    /\ wresp = NoResponse
    /\ pIn = NoPure
    /\ pOut = NoPureResult
    /\ run = [r \in Runs |-> IdleRun]
    /\ hubspot \in ExistingOrders
    /\ started = 0

\* invocations one at a time, as the deployment is assumed to trigger them
NextSync ==
    \E r \in Runs :
        \/ StartRunAlone(r)
        \/ SchemaResponse(r)
        \/ PageResponse(r, PageResponses)
        \/ SearchResponse(r)
        \/ WriteResponse(r)
        \/ Respond(r)

SpecSync == InitSync /\ [][NextSync]_vars

\* invocations that may overlap, as the code allows
NextOverlap ==
    \E r \in Runs :
        \/ StartRun(r)
        \/ SchemaResponse(r)
        \/ PageResponse(r, PageResponsesSmall)
        \/ SearchResponse(r)
        \/ WriteResponse(r)
        \/ Respond(r)

SpecOverlap == InitSync /\ [][NextOverlap]_vars

(***************************************************************************)
(* Claims about the webhook verifier                                       *)
(***************************************************************************)
Answered == wreq.method = PostMethod

HeaderChars(h) == IF h = JSNull THEN <<>> ELSE h.s

\* the timestamp header is an (optionally signed) decimal numeral
IsNumeral(h) ==
    LET u == Trim(HeaderChars(h))
    IN  u # <<>> /\ AllDigits(IF Head(u) \in {"+", "-"} THEN Tail(u) ELSE u)

NumeralValue(h) ==
    LET u == Trim(HeaderChars(h))
    IN  IF Head(u) = "-" THEN 0 - DecVal(Tail(u))
        ELSE IF Head(u) = "+" THEN DecVal(Tail(u)) ELSE DecVal(u)

TimestampMissing == wreq.timestamp = JSNull \/ HeaderChars(wreq.timestamp) = <<>>

TimestampDistance == Abs(wreq.now - NumeralValue(wreq.timestamp))

TimestampFresh == IsNumeral(wreq.timestamp) /\ TimestampDistance <= FiveMinutesMs

SecretConfigured ==
    env["HUBSPOT_CLIENT_SECRET"].t = "str" /\ env["HUBSPOT_CLIENT_SECRET"].s # <<>>

\* the supplied signature is the HMAC of this very request under the configured secret
SignatureCorrect ==
    /\ SecretConfigured
    /\ ~UriMalformed(wreq.uri)
    /\ HeaderChars(wreq.signature)
         = Hmac(env["HUBSPOT_CLIENT_SECRET"].s,
                wreq.method \o decodeURIComponent(wreq.uri) \o wreq.body
                  \o HeaderChars(wreq.timestamp))

InvalidTimestamp == Response(401, "Invalid timestamp")

\* C1: a POST whose timestamp header is missing, not a number or more than five
\* minutes (300000 ms) from the verifier's clock, in either direction, is answered
\* 401 "Invalid timestamp" whatever the signature and the secret; a timestamp
\* exactly five minutes away is not answered so.
C1_StaleTimestampRejected ==
    Answered =>
        /\ (TimestampMissing \/ ~IsNumeral(wreq.timestamp)
              \/ TimestampDistance > FiveMinutesMs) => wresp = InvalidTimestamp
        /\ (IsNumeral(wreq.timestamp) /\ TimestampDistance = FiveMinutesMs)
              => wresp # InvalidTimestamp

\* a request from the future, correctly signed under the configured secret, is refused
C1_Witness ==
    /\ Answered
    /\ IsNumeral(wreq.timestamp)
    /\ NumeralValue(wreq.timestamp) = wreq.now + FiveMinutesMs + 1
    /\ SignatureCorrect
    /\ wresp = InvalidTimestamp

IdVariants == <<"id", "Id", "OrderId", "SalesOrderId", "OrderNumber", "reference">>

\* what one id field variant yields: its trimmed text, empty when absent
VariantText(o, f) == IF IsNullish(o[f]) THEN <<>> ELSE Trim(ToStr(o[f]))

HasExtractableId(o) == \E k \in 1..Len(IdVariants) : VariantText(o, IdVariants[k]) # <<>>

\* the first variant, in priority order, that yields a non-empty value
ExtractableId(o) ==
    IF ~HasExtractableId(o) THEN <<>>
    ELSE VariantText(o, IdVariants[CHOOSE k \in 1..Len(IdVariants) :
            /\ VariantText(o, IdVariants[k]) # <<>>
            /\ \A j \in 1..(k - 1) : VariantText(o, IdVariants[j]) = <<>>])

\* the positions of the records that are the first with their identifier
FirstSeen(orders) ==
    {k \in 1..Len(orders) :
        /\ HasExtractableId(orders[k])
        /\ \A j \in 1..(k - 1) : ExtractableId(orders[j]) # ExtractableId(orders[k])}

RECURSIVE Pick(_, _, _)
Pick(orders, keep, k) ==
    IF k > Len(orders) THEN <<>>
    ELSE (IF k \in keep THEN <<orders[k]>> ELSE <<>>) \o Pick(orders, keep, k + 1)

\* C6: the prepared list holds, in fetch order, exactly the first-seen record of
\* each distinct extractable identifier; the records none of whose id field
\* variants yields a non-empty value are excluded and are the ones counted in
\* skipped; later duplicates are dropped uncounted.
C6_DedupeFirstSeen ==
    pIn.op = "prepare" =>
        /\ pOut.prepared = Pick(pIn.orders, FirstSeen(pIn.orders), 1)
        /\ pOut.skipped
             = Cardinality({k \in 1..Len(pIn.orders) : ~HasExtractableId(pIn.orders[k])})

\* C7: the properties payload holds only keys of the fetched schema, and no key
\* whose candidate value is undefined, null or the empty string; what it holds is
\* the candidate value.
C7_PayloadFiltered ==
    pIn.op = "map" =>
        \A k \in DOMAIN pOut.properties :
            /\ k \in pIn.schema
            /\ k \in DOMAIN pOut.candidate
            /\ pOut.candidate[k] \notin {JSUndefined, JSNull, Str(<<>>)}
            /\ pOut.properties[k] = pOut.candidate[k]

\* a schema that has a property whose candidate value is the empty string and lacks
\* one whose candidate value is set: neither is sent, others are
C7_Witness ==
    /\ pIn.op = "map"
    /\ \E k \in pIn.schema : k \in DOMAIN pOut.candidate /\ pOut.candidate[k] = Str(<<>>)
    /\ \E k \in DOMAIN pOut.candidate \ pIn.schema : Truthy(pOut.candidate[k])
    /\ UNIQUE_PROP \in DOMAIN pOut.properties
    /\ Cardinality(DOMAIN pOut.properties) < Cardinality(pIn.schema)

(***************************************************************************)
(* Claims about the sync                                                   *)
(***************************************************************************)
PastPagination(rec) ==
    rec.pc \in {"search", "write"} \/ (rec.pc = "done" /\ rec.response.status = 200)

\* C3: pagination issues no more than maxPages page requests, and when every page
\* fetched was non-empty it ends after exactly maxPages of them, whatever
\* CIN7_MAX_PAGES is set to.
C3_StopsAfterMaxPages ==
    \A r \in Runs :
        run[r].fetches > 0 =>
            /\ run[r].maxPages.t = "num"
            /\ run[r].fetches <= run[r].maxPages.n
            /\ (PastPagination(run[r]) /\ run[r].page = run[r].fetches + 1)
                  => run[r].fetches = run[r].maxPages.n

\* C4: once a Cin7 page request has been answered with a non-success status the
\* invocation has ended with 500 {ok:false, error}, and it has issued no search,
\* create or update, whatever it had fetched before.
C4_SourceFailureAborts ==
    \A r \in Runs :
        run[r].sourceErrors > 0 =>
            /\ run[r].pc = "done"
            /\ run[r].response.status = 500
            /\ ~run[r].response.ok
            /\ run[r].response.error # ""
            /\ run[r].calls = 0
            /\ run[r].created = 0 /\ run[r].updated = 0

\* the second page request fails after a first page of orders
C4_Witness ==
    \E r \in Runs :
        /\ run[r].sourceErrors = 1
        /\ run[r].fetches = 2
        /\ Len(run[r].allOrders) > 0
        /\ run[r].response.status = 500
        /\ run[r].calls = 0

\* C5: an invocation issues a search, create or update only if the property schema
\* it fetched holds cin7_order_id; when the schema request fails or the property
\* is absent, it has ended with 500 {ok:false} without a Cin7 page request or a
\* destination call.
C5_UniquePropertyRequired ==
    \A r \in Runs :
        /\ run[r].calls > 0 => (run[r].schema = "ok" /\ UNIQUE_PROP \in run[r].hsOrderProps)
        /\ (run[r].schema = "failed"
              \/ (run[r].schema = "ok" /\ UNIQUE_PROP \notin run[r].hsOrderProps))
             => /\ run[r].pc = "done"
                /\ run[r].response.status = 500
                /\ ~run[r].response.ok
                /\ run[r].fetches = 0
                /\ run[r].calls = 0

\* a schema without cin7_order_id was received and the invocation ended
C5_Witness ==
    \E r \in Runs :
        /\ run[r].schema = "ok"
        /\ run[r].hsOrderProps # {}
        /\ UNIQUE_PROP \notin run[r].hsOrderProps
        /\ run[r].response.status = 500
        /\ run[r].fetches = 0

\* what C8 says apart from the error text
C8_Common(rec) ==
    /\ rec.failures > 0 => rec.pc # "done" \/ (rec.response.status = 200 /\ rec.response.ok)
    /\ (rec.pc = "done" /\ rec.searched # <<>>) =>
          /\ rec.response.status = 200 /\ rec.response.ok
          /\ rec.searched = [k \in 1..Len(rec.prepared) |-> k]
          /\ rec.response.prepared = Len(rec.prepared)
          /\ rec.response.errorsCount = rec.failures
          /\ rec.response.created + rec.response.updated + rec.response.errorsCount
               = rec.response.prepared

\* C8 as stated: a failed search, create or update never ends the invocation; every
\* prepared record is still processed in order, the response is 200 ok:true,
\* errorsCount is the number of failed records, each record is counted once in
\* created, updated or errors, and the text of every failure is in the summary.
C8_EveryErrorTextReported ==
    \A r \in Runs :
        /\ C8_Common(run[r])
        /\ run[r].pc = "done" =>
              \A k \in 1..Len(run[r].errors) :
                  \E j \in 1..Len(run[r].response.sampleErrors) :
                      run[r].response.sampleErrors[j] = run[r].errors[k]

\* C8 as amended: the same, but the summary holds the texts of the first three
\* failures only (sampleErrors is errors.slice(0, 3)).
C8_FailuresCollected ==
    \A r \in Runs :
        /\ C8_Common(run[r])
        /\ run[r].pc = "done" =>
              /\ Len(run[r].response.sampleErrors)
                   = (IF Len(run[r].errors) < 3 THEN Len(run[r].errors) ELSE 3)
              /\ \A k \in 1..Len(run[r].response.sampleErrors) :
                    run[r].response.sampleErrors[k] = run[r].errors[k]

KeyOf(order) ==
    IF UNIQUE_PROP \in DOMAIN order.properties THEN order.properties[UNIQUE_PROP]
    ELSE JSUndefined

HasKey(orders, key) == \E k \in 1..Len(orders) : KeyOf(orders[k]) = key

\* the first record's search failed, and the records after it were written
C8_Witness ==
    \E r \in Runs :
        /\ run[r].pc = "done"
        /\ started = 1
        /\ Len(run[r].prepared) >= 2
        /\ run[r].errors = <<"HubSpot error 429">>
        /\ run[r].response.created = Len(run[r].prepared) - 1
        /\ ~HasKey(hubspot, Str(normalizeCin7Id(run[r].prepared[1])))

NoDuplicateKeys ==
    \A j, k \in 1..Len(hubspot) : KeyOf(hubspot[j]) = KeyOf(hubspot[k]) => j = k

C9_Invariant ==
    /\ NoDuplicateKeys
    /\ \A k \in 1..Len(hubspot) : KeyOf(hubspot[k]).t = "str"
    /\ \A r \in Runs :
          run[r].pc = "write" =>
             LET key == Str(normalizeCin7Id(run[r].prepared[run[r].i]))
             IN  /\ run[r].existingId = 0 <=> ~HasKey(hubspot, key)
                 /\ run[r].existingId # 0 =>
                       \E k \in 1..Len(hubspot) :
                           hubspot[k].id = run[r].existingId /\ KeyOf(hubspot[k]) = key

C9_Step ==
    /\ Len(hubspot') >= Len(hubspot)
    /\ \A k \in 1..Len(hubspot) :
          hubspot'[k].id = hubspot[k].id /\ KeyOf(hubspot'[k]) = KeyOf(hubspot[k])

\* C9: with one invocation at a time, a prepared record is created only when no
\* destination order holds its cin7_order_id and is updated otherwise; the
\* destination never holds two orders with one cin7_order_id; an order, once
\* there, keeps its id and its cin7_order_id and is never removed, so an id
\* synced by one invocation is not created again by a later one.
C9_SearchThenBranchUpsert == []C9_Invariant /\ [][C9_Step]_vars

\* a second invocation updated an order that the first one created
C9_Witness ==
    \E r \in Runs :
        /\ started = 2
        /\ run[r].pc = "done"
        /\ run[r].response.updated >= 1
        /\ run[r].response.created = 0
        /\ Len(hubspot) >= 1

\* C10: nothing keeps an invocation from starting while another is under way:
\* an idle invocation can always begin, whatever the others are doing.
C10_OverlapNotPrevented ==
    \A r \in Runs :
        (run[r].pc = "idle" /\ started < MaxRuns) => ENABLED StartRun(r)

\* both invocations searched for one id, found nothing, and created: two orders
\* hold the same cin7_order_id
C10_Witness ==
    /\ \A r \in Runs : run[r].created >= 1
    /\ \E j, k \in 1..Len(hubspot) : j # k /\ KeyOf(hubspot[j]) = KeyOf(hubspot[k])

====
